---- MODULE Spec2Model ----
(***************************************************************************)
(* pheutil: the command line of python-paillier (phe/command_line.py).     *)
(*                                                                         *)
(* The state is the two key files the commands write (the private key      *)
(* record of genpkey, the public key record of extract) and the run of the *)
(* last command: what it read, what it logged, what it wrote, the objects  *)
(* it built and the error it ended with.  Every command is one action.     *)
(* JSON objects are functions from field names to values, so a missing     *)
(* field is a name outside the DOMAIN.  The phe library (keys, encoding,   *)
(* encryption, the homomorphic operations, base64 of integers) is          *)
(* modelled from the specification's sections 3, 4 and 6.                  *)
(***************************************************************************)
EXTENDS Integers, Sequences, FiniteSets, TLC

VARIABLES privFile, pubFile, cmd, inputs, run

vars == <<privFile, pubFile, cmd, inputs, run>>

(***************************************************************************)
(* Bounds of the model.                                                    *)
(***************************************************************************)
\* primes p, q of a key are drawn from 3..MaxPrime
MaxPrime == 11
\* plaintext mantissas are drawn from -MaxMant..MaxMant
MaxMant == 2
\* exponents are drawn from FloorExp-ExpSpan .. FloorExp+ExpSpan
ExpSpan == 1
\* randomizers r are drawn from 1..MaxR
MaxR == 2
\* the --keysize values tried
KeySizes == {6, 7}

(***************************************************************************)
(* Program constants.                                                      *)
(***************************************************************************)
\* the exponent serialise_encrypted canonicalises to
FloorExp == -32
\* the base of the exponent (specification 4.2)
BASE == 16

Exps == (FloorExp - ExpSpan)..(FloorExp + ExpSpan)
Mants == (-MaxMant)..MaxMant

(***************************************************************************)
(* Integer arithmetic (the BigInt substrate).                              *)
(***************************************************************************)
RECURSIVE GCD(_, _)
GCD(a, b) == IF b = 0 THEN a ELSE GCD(b, a % b)

LCM(a, b) == (a * b) \div GCD(a, b)

IsPrime(p) == p > 1 /\ \A d \in 2..(p - 1) : p % d # 0

RECURSIVE PowMod(_, _, _)
PowMod(b, e, m) ==
    IF e = 0 THEN 1 % m
    ELSE LET h == PowMod(b, e \div 2, m)
             s == (h * h) % m
         IN  IF e % 2 = 1 THEN (s * (b % m)) % m ELSE s

RECURSIVE Pow(_, _)
Pow(b, e) == IF e = 0 THEN 1 ELSE b * Pow(b, e - 1)

ModInverse(a, m) == CHOOSE x \in 0..(m - 1) : (a * x) % m = 1 % m

RECURSIVE BitLength(_)
BitLength(x) == IF x = 0 THEN 0 ELSE 1 + BitLength(x \div 2)

Min(a, b) == IF a <= b THEN a ELSE b

(***************************************************************************)
(* phe.util.int_to_base64 / base64_to_int: an unsigned big-endian byte     *)
(* string, base64url encoded.  The text is the sequence of its 6-bit       *)
(* digits; the last digit is padded with zero bits.                        *)
(***************************************************************************)
ByteLength(x) == (BitLength(x) + 7) \div 8

RECURSIVE Digits(_, _, _)
\* the `len` digits of x in base `base`, most significant first
Digits(x, base, len) ==
    IF len = 0 THEN <<>>
    ELSE Append(Digits(x \div base, base, len - 1), x % base)

RECURSIVE FromDigits(_, _)
FromDigits(s, base) ==
    IF Len(s) = 0 THEN 0
    ELSE FromDigits(SubSeq(s, 1, Len(s) - 1), base) * base + s[Len(s)]

int_to_base64(x) ==
    LET bits == 8 * ByteLength(x)
        pad == (6 - (bits % 6)) % 6
    IN  Digits(x * Pow(2, pad), 64, (bits + pad) \div 6)

base64_to_int(s) ==
    LET nbytes == (6 * Len(s)) \div 8
        pad == 6 * Len(s) - 8 * nbytes
    IN  FromDigits(s, 64) \div Pow(2, pad)

(***************************************************************************)
(* str(int) and int(str) of the ciphertext record's "v": decimal digits,   *)
(* most significant first, "0" for zero.                                   *)
(***************************************************************************)
RECURSIVE DecLength(_)
DecLength(x) == IF x < 10 THEN 1 ELSE 1 + DecLength(x \div 10)

str(x) == Digits(x, 10, DecLength(x))

int(s) == FromDigits(s, 10)

(***************************************************************************)
(* The phe library, from the specification.                                *)
(***************************************************************************)
PaillierPublicKey(g, n) == [g |-> g, n |-> n, nsquare |-> n * n]

PaillierPrivateKey(public_key, Lambda, mu) ==
    [public_key |-> public_key, Lambda |-> Lambda, mu |-> mu]

\* 4.1: two distinct primes with gcd(pq, (p-1)(q-1)) = 1, n of keysize bits,
\* g = n + 1, lambda = lcm(p-1, q-1), mu = lambda^-1 mod n
generate_paillier_keypair(keysize) ==
    { LET n == p * q
          pub == PaillierPublicKey(n + 1, n)
          lam == LCM(p - 1, q - 1)
      IN  [pub |-> pub,
           priv |-> PaillierPrivateKey(pub, lam, ModInverse(lam, n))] :
      <<p, q>> \in { pq \in (3..MaxPrime) \X (3..MaxPrime) :
                        /\ pq[1] < pq[2]
                        /\ IsPrime(pq[1]) /\ IsPrime(pq[2])
                        /\ GCD(pq[1] * pq[2], (pq[1] - 1) * (pq[2] - 1)) = 1
                        /\ BitLength(pq[1] * pq[2]) = keysize } }

AllKeyPairs == UNION { generate_paillier_keypair(k) : k \in KeySizes }

(***************************************************************************)
(* A plaintext number is mantissa * BASE^exponent: the pair the Codec      *)
(* (4.2) encodes a float to.  Two pairs are compared at their common       *)
(* exponent.                                                               *)
(***************************************************************************)
Value(m, e) == [m |-> m, e |-> e]

ScaledTo(val, e) == val.m * Pow(BASE, val.e - e)

SameValue(a, b) ==
    LET lo == Min(a.e, b.e) IN ScaledTo(a, lo) = ScaledTo(b, lo)

\* 4.2: a negative value is encoded by its complement modulo n
Encode(pub, m) == ((m % pub.n) + pub.n) % pub.n

\* 4.2: an encoding that exceeds n/2 is a negative value
Decode(pub, encoding) ==
    IF 2 * encoding > pub.n THEN encoding - pub.n ELSE encoding

EncryptedNumber(public_key, ciphertext, exponent) ==
    [public_key |-> public_key, ciphertext |-> ciphertext, exponent |-> exponent]

\* 4.3: c = (1 + encoding * n) * r^n mod n^2
raw_encrypt(pub, encoding, r) ==
    (((1 + encoding * pub.n) % pub.nsquare) * PowMod(r, pub.n, pub.nsquare))
        % pub.nsquare

PublicKey_encrypt(pub, val, r) ==
    EncryptedNumber(pub, raw_encrypt(pub, Encode(pub, val.m), r), val.e)

Randomizers(pub) == { r \in 1..MaxR : r < pub.n /\ GCD(r, pub.n) = 1 }

NoErr == [kind |-> "none", msg |-> ""]

Err(kind, msg) == [kind |-> kind, msg |-> msg]

\* 4.4: fails on a key mismatch, on a ciphertext outside [0, n^2) and when
\* L(c^lambda mod n^2) is not an exact division; else (u * mu) mod n, decoded
PrivateKey_decrypt(private_key, enc) ==
    LET pub == private_key.public_key
        x == PowMod(enc.ciphertext, private_key.Lambda, pub.nsquare)
    IN  IF enc.public_key # pub
        THEN [err |-> Err("DecryptionError", "public key mismatch"), out |-> <<>>]
        ELSE IF enc.ciphertext < 0 \/ enc.ciphertext >= pub.nsquare
        THEN [err |-> Err("DecryptionError", "ciphertext out of range"), out |-> <<>>]
        ELSE IF (x - 1) % pub.n # 0
        THEN [err |-> Err("DecryptionError", "invalid ciphertext"), out |-> <<>>]
        ELSE [err |-> NoErr,
              out |-> <<Value(Decode(pub, (((x - 1) \div pub.n) * private_key.mu)
                                              % pub.n),
                              enc.exponent)>>]

\* 4.5 exponent alignment: c^(BASE^(exponent - new_exp)) mod n^2
decrease_exponent_to(enc, new_exp) ==
    EncryptedNumber(enc.public_key,
                    PowMod(enc.ciphertext, Pow(BASE, enc.exponent - new_exp),
                           enc.public_key.nsquare),
                    new_exp)

AlignTo(enc, e) == IF enc.exponent > e THEN decrease_exponent_to(enc, e) ELSE enc

\* 4.5 add: align both to the smaller exponent, multiply modulo n^2
EncryptedNumber_add(a, b) ==
    LET lo == Min(a.exponent, b.exponent)
    IN  EncryptedNumber(a.public_key,
                        (AlignTo(a, lo).ciphertext * AlignTo(b, lo).ciphertext)
                            % a.public_key.nsquare,
                        lo)

\* 4.5 add_scalar: encrypt the encoded scalar, then add
EncryptedNumber_add_scalar(a, val, r) ==
    EncryptedNumber_add(a, PublicKey_encrypt(a.public_key, val, r))

\* 4.5 multiply_scalar: c^k mod n^2, the exponents add up
EncryptedNumber_mul_scalar(a, val) ==
    EncryptedNumber(a.public_key,
                    PowMod(a.ciphertext, Encode(a.public_key, val.m),
                           a.public_key.nsquare),
                    a.exponent + val.e)

(***************************************************************************)
(* The run of a command: the error it ended with, its log lines, what it   *)
(* wrote to OUTPUT and the values of its local variables (an absent one is *)
(* the empty sequence).                                                    *)
(***************************************************************************)
EmptyRun ==
    [err |-> NoErr, logs |-> <<>>, written |-> <<>>, pub |-> <<>>,
     private_key |-> <<>>, encs |-> <<>>, enc_result |-> <<>>,
     serialised |-> <<>>, out |-> <<>>]

\* log(m): one line on stderr; args are the values formatted into the text
log(text, args) == [text |-> text, args |-> args]

Arg(name, val) == [name |-> name, val |-> val]

Has(rec, field) == field \in DOMAIN rec

Drop(rec, field) == [k \in (DOMAIN rec) \ {field} |-> rec[k]]

With(rec, field, val) ==
    [k \in (DOMAIN rec) \cup {field} |-> IF k = field THEN val ELSE rec[k]]

load_public_key(public_key_data) ==
    IF ~Has(public_key_data, "alg")
    THEN [err |-> Err("AssertionError", "Invalid public key"), pub |-> <<>>]
    ELSE IF public_key_data["alg"] # "PAI-GN1"
    THEN [err |-> Err("AssertionError", "Invalid public key"), pub |-> <<>>]
    ELSE IF ~Has(public_key_data, "kty")
    THEN [err |-> Err("KeyError", "kty"), pub |-> <<>>]
    ELSE IF public_key_data["kty"] # "DAJ"
    THEN [err |-> Err("AssertionError", "Invalid public key"), pub |-> <<>>]
    ELSE IF ~Has(public_key_data, "n")
    THEN [err |-> Err("KeyError", "n"), pub |-> <<>>]
    ELSE LET n == base64_to_int(public_key_data["n"])
         IN  [err |-> NoErr, pub |-> <<PaillierPublicKey(n + 1, n)>>]

\* a slip in load_encrypted_number: the exponent of the record is not read
load_encrypted_number_floor(ciphertext_data, pub) ==
    IF ~Has(ciphertext_data, "v") \/ ~Has(ciphertext_data, "e")
    THEN [err |-> Err("AssertionError", ""), enc |-> <<>>]
    ELSE [err |-> NoErr,
          enc |-> <<EncryptedNumber(pub, int(ciphertext_data["v"]), FloorExp)>>]

load_encrypted_number(ciphertext_data, pub) ==
    IF ~Has(ciphertext_data, "v")
    THEN [err |-> Err("AssertionError", ""), enc |-> <<>>]
    ELSE IF ~Has(ciphertext_data, "e")
    THEN [err |-> Err("AssertionError", ""), enc |-> <<>>]
    ELSE [err |-> NoErr,
          enc |-> <<EncryptedNumber(pub, int(ciphertext_data["v"]),
                                    ciphertext_data["e"])>>]

\* a slip in serialise_encrypted: the comparison is off by one
serialise_encrypted_offbyone(enc) ==
    LET rescaled == IF enc.exponent > FloorExp + 1
                    THEN decrease_exponent_to(enc, FloorExp)
                    ELSE enc
    IN  [obj |-> [v |-> str(rescaled.ciphertext), e |-> rescaled.exponent],
         logs |-> <<>>,
         arg |-> enc]

\* a slip in serialise_encrypted: e is set to -32 and v is not rescaled
serialise_encrypted_stamped(enc) ==
    [obj |-> [v |-> str(enc.ciphertext), e |-> Min(enc.exponent, FloorExp)],
     logs |-> <<>>,
     arg |-> enc]

\* obj: the record returned; arg: the caller's object after the call
serialise_encrypted(enc) ==
    LET rescaled == IF enc.exponent > FloorExp
                    THEN decrease_exponent_to(enc, FloorExp)
                    ELSE enc
    IN  [obj |-> [v |-> str(rescaled.ciphertext), e |-> rescaled.exponent],
         logs |-> IF enc.exponent > FloorExp THEN <<>>
                  ELSE <<log("Exponent is less than -32", <<>>)>>,
         arg |-> enc]

jwk_public(pub) ==
    [kty |-> "DAJ", alg |-> "PAI-GN1", key_ops |-> {"encrypt"},
     n |-> int_to_base64(pub.n),
     kid |-> "Paillier public key generated by pheutil on {date}"]

\* a slip in generate_keypair: lambda and mu change places
jwk_private_swapped(keypair) ==
    [kty |-> "DAJ", key_ops |-> {"decrypt"},
     lambda |-> int_to_base64(keypair.priv.mu),
     mu |-> int_to_base64(keypair.priv.Lambda),
     pub |-> jwk_public(keypair.pub),
     kid |-> "Paillier private key generated by pheutil on {date}"]

jwk_private(keypair) ==
    [kty |-> "DAJ", key_ops |-> {"decrypt"},
     lambda |-> int_to_base64(keypair.priv.Lambda),
     mu |-> int_to_base64(keypair.priv.mu),
     pub |-> jwk_public(keypair.pub),
     kid |-> "Paillier private key generated by pheutil on {date}"]

\* genpkey: keypair is the pair phe.generate_paillier_keypair returned
generate_keypair(keysize, keypair) ==
    [EmptyRun EXCEPT
        !.logs = <<log("Generating a paillier keypair with keysize of {}",
                       <<Arg("keysize", keysize)>>),
                   log("Keys generated", <<>>),
                   log("Private key written to {}",
                       <<Arg("output.name", "OUTPUT")>>)>>,
        !.written = <<jwk_private(keypair)>>]

\* a slip in extract: the whole private key record is written
extract_whole(priv) ==
    IF ~Has(priv, "pub") \/ ~Has(priv, "kty")
    THEN [EmptyRun EXCEPT !.err = Err("AssertionError", "Invalid private key")]
    ELSE IF priv["kty"] # "DAJ"
    THEN [EmptyRun EXCEPT !.err = Err("AssertionError", "Invalid private key")]
    ELSE [EmptyRun EXCEPT !.written = <<priv>>]

\* a slip in extract: the record is written before kty is checked
extract_eager(priv) ==
    IF ~Has(priv, "pub")
    THEN [EmptyRun EXCEPT !.err = Err("AssertionError", "Invalid private key")]
    ELSE IF ~Has(priv, "kty")
    THEN [EmptyRun EXCEPT !.written = <<priv["pub"]>>,
                          !.err = Err("KeyError", "kty")]
    ELSE IF priv["kty"] # "DAJ"
    THEN [EmptyRun EXCEPT !.written = <<priv["pub"]>>,
                          !.err = Err("AssertionError", "Invalid private key")]
    ELSE [EmptyRun EXCEPT !.written = <<priv["pub"]>>]

extract(priv) ==
    LET l1 == <<log("Loading paillier keypair", <<>>)>>
    IN  IF ~Has(priv, "pub")
        THEN [EmptyRun EXCEPT !.logs = l1,
                              !.err = Err("AssertionError", "Invalid private key")]
        ELSE IF ~Has(priv, "kty")
        THEN [EmptyRun EXCEPT !.logs = l1, !.err = Err("KeyError", "kty")]
        ELSE IF priv["kty"] # "DAJ"
        THEN [EmptyRun EXCEPT !.logs = l1,
                              !.err = Err("AssertionError", "Invalid private key")]
        ELSE [EmptyRun EXCEPT
                !.logs = l1 \o <<log("Public key written to {}",
                                     <<Arg("output.name", "OUTPUT")>>)>>,
                !.written = <<priv["pub"]>>]

\* float(plaintext): a plaintext argument that is no number has valid = FALSE
Float(plaintext) == Value(plaintext.m, plaintext.e)

\* the part of encrypt, addenc, add and multiply from the result on
Serialised(base, enc_result) ==
    LET s == serialise_encrypted(enc_result)
    IN  [base EXCEPT !.logs = base.logs \o s.logs,
                     !.enc_result = <<s.arg>>,
                     !.serialised = <<s.obj>>]

\* r is the randomizer pub.encrypt draws
encrypt(public, plaintext, r) ==
    IF ~plaintext.valid
    THEN [EmptyRun EXCEPT !.err = Err("ValueError", "could not convert string to float")]
    ELSE
    LET l1 == <<log("Loading public key", <<>>)>>
        k == load_public_key(public)
    IN  IF k.err # NoErr
        THEN [EmptyRun EXCEPT !.logs = l1, !.err = k.err]
        ELSE Serialised(
                [EmptyRun EXCEPT
                    !.logs = l1 \o <<log("Encrypting: {:+.16f}",
                                         <<Arg("num", Float(plaintext))>>)>>,
                    !.pub = k.pub],
                PublicKey_encrypt(k.pub[1], Float(plaintext), r))

decrypt(private, ciphertext) ==
    IF ~Has(private, "pub")
    THEN [EmptyRun EXCEPT !.err = Err("AssertionError", "")]
    ELSE
    LET k == load_public_key(private["pub"])
        l1 == <<log("Loading private key", <<>>)>>
        bad == Err("AssertionError", "Invalid private key")
    IN  IF k.err # NoErr THEN [EmptyRun EXCEPT !.err = k.err]
        ELSE IF ~Has(private, "key_ops")
        THEN [EmptyRun EXCEPT !.logs = l1, !.pub = k.pub, !.err = bad]
        ELSE IF "decrypt" \notin private["key_ops"]
        THEN [EmptyRun EXCEPT !.logs = l1, !.pub = k.pub, !.err = bad]
        ELSE IF ~Has(private, "mu")
        THEN [EmptyRun EXCEPT !.logs = l1, !.pub = k.pub, !.err = bad]
        ELSE IF ~Has(private, "lambda")
        THEN [EmptyRun EXCEPT !.logs = l1, !.pub = k.pub, !.err = bad]
        ELSE IF ~Has(private, "kty")
        THEN [EmptyRun EXCEPT !.logs = l1, !.pub = k.pub,
                              !.err = Err("KeyError", "kty")]
        ELSE IF private["kty"] # "DAJ"
        THEN [EmptyRun EXCEPT !.logs = l1, !.pub = k.pub, !.err = bad]
        ELSE
        LET private_key == PaillierPrivateKey(k.pub[1],
                                              base64_to_int(private["lambda"]),
                                              base64_to_int(private["mu"]))
            l2 == l1 \o <<log("Decrypting ciphertext", <<>>)>>
            built == [EmptyRun EXCEPT !.logs = l2, !.pub = k.pub,
                                      !.private_key = <<private_key>>]
            c == load_encrypted_number(ciphertext, k.pub[1])
        IN  IF c.err # NoErr THEN [built EXCEPT !.err = c.err]
            ELSE LET d == PrivateKey_decrypt(private_key, c.enc[1])
                 IN  [built EXCEPT !.encs = c.enc, !.err = d.err, !.out = d.out]

\* a slip in add_encrypted: the first number is added to itself
add_encrypted_twice(public, encrypted_a, encrypted_b) ==
    LET k == load_public_key(public)
    IN  IF k.err # NoErr THEN [EmptyRun EXCEPT !.err = k.err]
        ELSE
        LET a == load_encrypted_number(encrypted_a, k.pub[1])
            b == load_encrypted_number(encrypted_b, k.pub[1])
        IN  IF a.err # NoErr
            THEN [EmptyRun EXCEPT !.pub = k.pub, !.err = a.err]
            ELSE IF b.err # NoErr
            THEN [EmptyRun EXCEPT !.pub = k.pub, !.encs = a.enc, !.err = b.err]
            ELSE Serialised([EmptyRun EXCEPT !.pub = k.pub,
                                             !.encs = a.enc \o b.enc],
                            EncryptedNumber_add(a.enc[1], a.enc[1]))

add_encrypted(public, encrypted_a, encrypted_b) ==
    LET l1 == <<log("Loading public key", <<>>)>>
        k == load_public_key(public)
    IN  IF k.err # NoErr THEN [EmptyRun EXCEPT !.logs = l1, !.err = k.err]
        ELSE
        LET l2 == l1 \o <<log("Loading first encrypted number", <<>>)>>
            a == load_encrypted_number(encrypted_a, k.pub[1])
        IN  IF a.err # NoErr
            THEN [EmptyRun EXCEPT !.logs = l2, !.pub = k.pub, !.err = a.err]
            ELSE
            LET l3 == l2 \o <<log("Loading second encrypted number", <<>>)>>
                b == load_encrypted_number(encrypted_b, k.pub[1])
            IN  IF b.err # NoErr
                THEN [EmptyRun EXCEPT !.logs = l3, !.pub = k.pub,
                                      !.encs = a.enc, !.err = b.err]
                ELSE Serialised(
                        [EmptyRun EXCEPT
                            !.logs = l3 \o <<log("Adding encrypted numbers together",
                                                 <<>>)>>,
                            !.pub = k.pub, !.encs = a.enc \o b.enc],
                        EncryptedNumber_add(a.enc[1], b.enc[1]))

\* the part add and multiply share: the key, the number, the plaintext
LoadOperands(public, encrypted, plaintext) ==
    LET l1 == <<log("Loading public key", <<>>)>>
        k == load_public_key(public)
    IN  IF k.err # NoErr THEN [EmptyRun EXCEPT !.logs = l1, !.err = k.err]
        ELSE
        LET l2 == l1 \o <<log("Loading encrypted number", <<>>)>>
            c == load_encrypted_number(encrypted, k.pub[1])
        IN  IF c.err # NoErr
            THEN [EmptyRun EXCEPT !.logs = l2, !.pub = k.pub, !.err = c.err]
            ELSE
            LET l3 == l2 \o <<log("Loading unencrypted number", <<>>)>>
                loaded == [EmptyRun EXCEPT !.logs = l3, !.pub = k.pub,
                                           !.encs = c.enc]
            IN  IF ~plaintext.valid
                THEN [loaded EXCEPT
                        !.err = Err("ValueError",
                                    "could not convert string to float")]
                ELSE loaded

\* r is the randomizer the scalar is encrypted with
add_encrypted_to_plaintext(public, encrypted, plaintext, r) ==
    LET o == LoadOperands(public, encrypted, plaintext)
    IN  IF o.err # NoErr THEN o
        ELSE Serialised(
                [o EXCEPT !.logs = o.logs \o <<log("Adding", <<>>)>>],
                EncryptedNumber_add_scalar(o.encs[1], Float(plaintext), r))

multiply_encrypted_to_plaintext(public, encrypted, plaintext) ==
    LET o == LoadOperands(public, encrypted, plaintext)
    IN  IF o.err # NoErr THEN o
        ELSE Serialised(
                [o EXCEPT !.logs = o.logs \o <<log("Multiplying", <<>>)>>],
                EncryptedNumber_mul_scalar(o.encs[1], Float(plaintext)))

(***************************************************************************)
(* The inputs the commands are run on.                                     *)
(***************************************************************************)
\* a public key record as a user may have edited it
PubVariants(pubrec) ==
    { pubrec, Drop(pubrec, "alg"), With(pubrec, "alg", "RSA-OAEP"),
      Drop(pubrec, "kty"), With(pubrec, "kty", "RSA"), Drop(pubrec, "n") }

\* a private key record as a user may have edited it
PrivVariants(privrec) ==
    { Drop(privrec, "pub"), Drop(privrec, "kty"), With(privrec, "kty", "RSA"),
      Drop(privrec, "key_ops"), With(privrec, "key_ops", {"encrypt"}),
      Drop(privrec, "mu"), Drop(privrec, "lambda"),
      With(privrec, "lambda", int_to_base64(base64_to_int(privrec["lambda"]) + 1)),
      With(privrec, "mu", int_to_base64(base64_to_int(privrec["mu"]) + 1)) }
    \cup { With(privrec, "pub", v) : v \in PubVariants(privrec["pub"]) }

\* the PLAINTEXT arguments: numbers, and a text that is no number
Plaintexts ==
    { [valid |-> TRUE, m |-> m, e |-> e] : m \in Mants, e \in Exps }
    \cup { [valid |-> FALSE, m |-> 0, e |-> 0] }

MaxRandomizer(pub) ==
    CHOOSE r \in Randomizers(pub) : \A r2 \in Randomizers(pub) : r2 <= r

\* the ciphertext files: rec is the record in the file; key and val tell
\* under which key (its n) and from which number the record was made.  The
\* last two are records with a field missing (key 0).
CipherFiles ==
    { LET c == PublicKey_encrypt(kp.pub, Value(m, e), MaxRandomizer(kp.pub))
      IN  [rec |-> [v |-> str(c.ciphertext), e |-> c.exponent],
           key |-> kp.pub.n, val |-> Value(m, e)] :
      kp \in AllKeyPairs, m \in Mants, e \in Exps }
    \cup { [rec |-> [e |-> FloorExp], key |-> 0, val |-> Value(0, 0)],
           [rec |-> [v |-> str(1)], key |-> 0, val |-> Value(0, 0)] }

NoInputs ==
    [keysize |-> <<>>, private |-> <<>>, public |-> <<>>, ciphertexts |-> <<>>,
     plaintext |-> <<>>, r |-> <<>>]

\* the randomizer drawn is one the key allows
RandomizerFor(public, r) ==
    LET k == load_public_key(public)
    IN  k.err = NoErr => r \in Randomizers(k.pub[1])

(***************************************************************************)
(* The commands, one process each: a command starts when no other runs     *)
(* (cmd = "none").  inputs holds the files and arguments the command read. *)
(***************************************************************************)
Init ==
    /\ privFile = <<>>
    /\ pubFile = <<>>
    /\ cmd = "none"
    /\ inputs = NoInputs
    /\ run = EmptyRun

GenPKey ==
    \E keysize \in KeySizes :
      \E keypair \in generate_paillier_keypair(keysize) :
        LET res == generate_keypair(keysize, keypair)
        IN  /\ cmd = "none"
            /\ cmd' = "genpkey"
            /\ inputs' = [NoInputs EXCEPT !.keysize = <<keysize>>]
            /\ run' = res
            /\ privFile' = res.written
            /\ UNCHANGED pubFile

Extract ==
    /\ cmd = "none"
    /\ privFile # <<>>
    /\ \E priv \in PrivVariants(privFile[1]) \cup {privFile[1]} :
         LET res == extract(priv)
         IN  /\ cmd' = "extract"
             /\ inputs' = [NoInputs EXCEPT !.private = <<priv>>]
             /\ run' = res
             /\ pubFile' = IF res.written # <<>> THEN res.written ELSE pubFile
             /\ UNCHANGED privFile

Encrypt ==
    /\ cmd = "none"
    /\ pubFile # <<>>
    /\ \E plaintext \in Plaintexts, r \in 1..MaxR :
         LET res == encrypt(pubFile[1], plaintext, r)
         IN  /\ RandomizerFor(pubFile[1], r)
             /\ cmd' = "encrypt"
             /\ inputs' = [NoInputs EXCEPT
                             !.plaintext = <<plaintext>>,
                             !.public = IF plaintext.valid THEN pubFile ELSE <<>>,
                             !.r = IF res.err = NoErr THEN <<r>> ELSE <<>>]
             /\ run' = res
             /\ UNCHANGED <<privFile, pubFile>>

Decrypt ==
    /\ cmd = "none"
    /\ privFile # <<>>
    /\ \E priv \in PrivVariants(privFile[1]) \cup {privFile[1]}, f \in CipherFiles :
         LET res == decrypt(priv, f.rec)
         IN  /\ cmd' = "decrypt"
             /\ inputs' = [NoInputs EXCEPT
                             !.private = <<priv>>,
                             !.ciphertexts = IF res.private_key # <<>>
                                             THEN <<f>> ELSE <<>>]
             /\ run' = res
             /\ UNCHANGED <<privFile, pubFile>>

AddEnc ==
    /\ cmd = "none"
    /\ pubFile # <<>>
    /\ \E fa \in CipherFiles :
         \E fb \in { f \in CipherFiles : f.key \in {0, fa.key} } :
           LET res == add_encrypted(pubFile[1], fa.rec, fb.rec)
           IN  /\ cmd' = "addenc"
               /\ inputs' = [NoInputs EXCEPT
                               !.public = pubFile,
                               !.ciphertexts = IF res.pub = <<>> THEN <<>>
                                               ELSE IF res.encs = <<>> THEN <<fa>>
                                               ELSE <<fa, fb>>]
               /\ run' = res
               /\ UNCHANGED <<privFile, pubFile>>

Add ==
    /\ cmd = "none"
    /\ pubFile # <<>>
    /\ \E f \in CipherFiles, plaintext \in Plaintexts, r \in 1..MaxR :
         LET res == add_encrypted_to_plaintext(pubFile[1], f.rec, plaintext, r)
         IN  /\ RandomizerFor(pubFile[1], r)
             /\ cmd' = "add"
             /\ inputs' = [NoInputs EXCEPT
                             !.public = pubFile,
                             !.ciphertexts = IF res.pub = <<>> THEN <<>> ELSE <<f>>,
                             !.plaintext = IF res.encs = <<>> THEN <<>>
                                           ELSE <<plaintext>>,
                             !.r = IF res.err = NoErr THEN <<r>> ELSE <<>>]
             /\ run' = res
             /\ UNCHANGED <<privFile, pubFile>>

Multiply ==
    /\ cmd = "none"
    /\ pubFile # <<>>
    /\ \E f \in CipherFiles, plaintext \in Plaintexts :
         LET res == multiply_encrypted_to_plaintext(pubFile[1], f.rec, plaintext)
         IN  /\ cmd' = "multiply"
             /\ inputs' = [NoInputs EXCEPT
                             !.public = pubFile,
                             !.ciphertexts = IF res.pub = <<>> THEN <<>> ELSE <<f>>,
                             !.plaintext = IF res.encs = <<>> THEN <<>>
                                           ELSE <<plaintext>>]
             /\ run' = res
             /\ UNCHANGED <<privFile, pubFile>>

\* the process of the command ends: its objects are gone, the files remain
Exit ==
    /\ cmd # "none"
    /\ cmd' = "none"
    /\ inputs' = NoInputs
    /\ run' = EmptyRun
    /\ UNCHANGED <<privFile, pubFile>>

Next ==
    \/ GenPKey
    \/ Extract
    \/ Encrypt
    \/ Decrypt
    \/ AddEnc
    \/ Add
    \/ Multiply
    \/ Exit

Spec == Init /\ [][Next]_vars

(***************************************************************************)
(* Notions the properties share.                                           *)
(***************************************************************************)
Serialising == {"encrypt", "addenc", "add", "multiply"}

\* the command reached serialise_encrypted
HasSerialised == cmd \in Serialising /\ run.serialised # <<>>

\* the key pair a public key belongs to
MatchingKey(pub) == CHOOSE kp \in AllKeyPairs : kp.pub = pub

\* the object the command passed to serialise_encrypted
Passed ==
    CASE cmd = "encrypt" ->
           PublicKey_encrypt(run.pub[1], Float(inputs.plaintext[1]), inputs.r[1])
      [] cmd = "addenc" -> EncryptedNumber_add(run.encs[1], run.encs[2])
      [] cmd = "add" ->
           EncryptedNumber_add_scalar(run.encs[1], Float(inputs.plaintext[1]),
                                      inputs.r[1])
      [] cmd = "multiply" ->
           EncryptedNumber_mul_scalar(run.encs[1], Float(inputs.plaintext[1]))

Abs(x) == IF x < 0 THEN -x ELSE x

InvalidKeyFormat(err) == err.kind = "AssertionError"

(***************************************************************************)
(* C1.  Every record serialise_encrypted emits, in encrypt, addenc, add    *)
(* and multiply, has e <= -32: a ciphertext whose exponent is above -32 is *)
(* rescaled and emitted with e = -32 exactly, and one whose exponent is    *)
(* already <= -32 is emitted as it is, v and e being its integer and its   *)
(* exponent.                                                               *)
(***************************************************************************)
C1_ExponentFloor ==
    HasSerialised =>
        LET enc == run.enc_result[1]
            rec == run.serialised[1]
        IN  /\ rec["e"] <= FloorExp
            /\ enc.exponent > FloorExp =>
                 /\ rec["e"] = FloorExp
                 /\ rec["v"] = str(decrease_exponent_to(enc, FloorExp).ciphertext)
            /\ enc.exponent <= FloorExp =>
                 /\ rec["e"] = enc.exponent
                 /\ rec["v"] = str(enc.ciphertext)

\* addenc added two numbers above the floor and emitted their sum at -32
C1_Witness ==
    /\ cmd = "addenc"
    /\ run.serialised # <<>>
    /\ run.enc_result[1].exponent > FloorExp
    /\ run.serialised[1]["e"] = FloorExp
    /\ run.serialised[1]["v"] # str(run.enc_result[1].ciphertext)

(***************************************************************************)
(* C9.  A ciphertext whose exponent is <= -32 comes back from its record   *)
(* exactly: load_encrypted_number of the record serialise_encrypted        *)
(* emitted, under the same public key, has the same integer, the same      *)
(* exponent and that public key.  And load_encrypted_number rejects a      *)
(* record that lacks v or lacks e.                                         *)
(***************************************************************************)
C9_RecordRoundTrip ==
    /\ (HasSerialised /\ run.enc_result[1].exponent <= FloorExp) =>
          load_encrypted_number(run.serialised[1], run.pub[1])
            = [err |-> NoErr, enc |-> <<run.enc_result[1]>>]
    /\ \A i \in DOMAIN inputs.ciphertexts :
          LET rec == inputs.ciphertexts[i].rec
          IN  (~Has(rec, "v") \/ ~Has(rec, "e")) =>
                 /\ run.err = Err("AssertionError", "")
                 /\ Len(run.encs) < i
                 /\ run.serialised = <<>>
                 /\ run.out = <<>>

\* multiply emitted a ciphertext below the floor, with a v of several digits
C9_Witness ==
    /\ cmd = "multiply"
    /\ run.serialised # <<>>
    /\ run.enc_result[1].exponent < FloorExp
    /\ run.enc_result[1].ciphertext > 9
    /\ run.serialised[1]["e"] = run.enc_result[1].exponent

(***************************************************************************)
(* C10.  No partial failure.  A command that ends in an error has written  *)
(* nothing to its output, has emitted no record and no decrypted value,    *)
(* and leaves the key files as they were; extract writes the public key    *)
(* record only when its input has a pub and kty = "DAJ", and then the file *)
(* holds exactly that record; and serialise_encrypted leaves the object    *)
(* passed to it as the command built it.  The last conjunct is about the   *)
(* state a step leaves: every state of a command has such a step, the end  *)
(* of its process.                                                         *)
(***************************************************************************)
C10_NoPartialFailure ==
    [][ /\ run'.err # NoErr =>
             /\ run'.written = <<>>
             /\ run'.serialised = <<>>
             /\ run'.out = <<>>
             /\ privFile' = privFile
             /\ pubFile' = pubFile
        /\ cmd' = "extract" =>
             /\ privFile' = privFile
             /\ run'.written # <<>> =>
                  /\ Has(inputs'.private[1], "pub")
                  /\ Has(inputs'.private[1], "kty")
                  /\ inputs'.private[1]["kty"] = "DAJ"
                  /\ run'.err = NoErr
                  /\ pubFile' = <<inputs'.private[1]["pub"]>>
             /\ run'.written = <<>> => pubFile' = pubFile
        /\ (cmd' \in Serialising /\ run'.serialised # <<>>) =>
             /\ privFile' = privFile
             /\ pubFile' = pubFile
        /\ HasSerialised => run.enc_result = <<Passed>>
      ]_vars

\* extract failed on the kty of a record that has a pub; the public key file
\* of an earlier extract is still there
C10_Witness ==
    /\ cmd = "extract"
    /\ run.err = Err("AssertionError", "Invalid private key")
    /\ Has(inputs.private[1], "pub")
    /\ run.written = <<>>
    /\ pubFile # <<>>

(***************************************************************************)
(* C8.  Private key material leaves only through genpkey's output record.  *)
(* What extract writes is the pub of its input: private key records with   *)
(* the same pub and other lambda or mu give the same output, which has no  *)
(* lambda and no mu field.  The other commands write nothing.  No log line *)
(* of any command is formatted from lambda or mu: the only values logged   *)
(* are the key size, the output's name and the plaintext number.           *)
(***************************************************************************)
C8_NoPrivateKeyLeak ==
    /\ cmd = "extract" /\ run.written # <<>> =>
         /\ run.written = <<inputs.private[1]["pub"]>>
         /\ ~Has(run.written[1], "lambda")
         /\ ~Has(run.written[1], "mu")
         /\ \A other \in PrivVariants(privFile[1]) :
              (/\ Has(other, "pub")
               /\ other["pub"] = inputs.private[1]["pub"]
               /\ extract(other).err = NoErr)
                 => extract(other).written = run.written
    /\ cmd \notin {"genpkey", "extract"} => run.written = <<>>
    /\ \A i \in DOMAIN run.logs :
         \A j \in DOMAIN run.logs[i].args :
            /\ run.logs[i].args[j].name \in {"keysize", "output.name", "num"}
            /\ cmd \in {"genpkey", "extract", "decrypt"} =>
                 run.logs[i].args[j].name \in {"keysize", "output.name"}

\* extract wrote the public key of a private key record whose lambda differs
\* from the generated one
C8_Witness ==
    /\ cmd = "extract"
    /\ run.written # <<>>
    /\ Has(inputs.private[1], "lambda")
    /\ inputs.private[1]["lambda"] # privFile[1]["lambda"]
    /\ inputs.private[1]["pub"] = privFile[1]["pub"]

(***************************************************************************)
(* C5.  The private key record genpkey emits passes the validation of      *)
(* decrypt and, its nested pub, of load_public_key; the keys rebuilt from  *)
(* it have the n, lambda and mu that were generated, and g = n + 1.        *)
(***************************************************************************)
C5_KeyRecordRoundTrip ==
    (cmd = "decrypt" /\ inputs.private # <<>>) =>
        \A kp \in AllKeyPairs :
            inputs.private[1] = generate_keypair(BitLength(kp.pub.n), kp).written[1]
              => /\ load_public_key(inputs.private[1]["pub"]).err = NoErr
                 /\ run.err.kind \notin {"AssertionError", "KeyError"}
                      \/ run.private_key # <<>>
                 /\ run.private_key # <<>>
                 /\ run.private_key[1].public_key.n = kp.pub.n
                 /\ run.private_key[1].Lambda = kp.priv.Lambda
                 /\ run.private_key[1].mu = kp.priv.mu
                 /\ run.private_key[1].public_key.g = kp.pub.n + 1
                 /\ run.pub = <<kp.pub>>

\* decrypt rebuilt the private key from the record genpkey wrote
C5_Witness ==
    /\ cmd = "decrypt"
    /\ inputs.private = privFile
    /\ run.private_key # <<>>
    /\ run.private_key[1].Lambda > 1
    /\ run.private_key[1].mu > 1
    /\ run.out # <<>>

(***************************************************************************)
(* C2.  Key mismatch rejection: the decrypt command, given the private key *)
(* record genpkey wrote and a ciphertext record made under another public  *)
(* key, ends in an error and returns no decrypted value.                   *)
(***************************************************************************)
C2_KeyMismatchRejected ==
    (/\ cmd = "decrypt"
     /\ inputs.private = privFile
     /\ inputs.ciphertexts # <<>>
     /\ run.private_key # <<>>
     /\ inputs.ciphertexts[1].key \notin {0, run.private_key[1].public_key.n})
       => /\ run.err # NoErr
          /\ run.out = <<>>

\* the public key record a command handed to load_public_key
LoadedPublicRecords ==
    IF cmd = "decrypt"
    THEN IF Has(inputs.private[1], "pub") THEN {inputs.private[1]["pub"]} ELSE {}
    ELSE { inputs.public[i] : i \in DOMAIN inputs.public }

(***************************************************************************)
(* C3.  load_public_key fails with the invalid-key-format error (the one   *)
(* assertion error "Invalid public key") for every record whose alg is     *)
(* missing or not "PAI-GN1" or whose kty is missing or not "DAJ", and      *)
(* returns a public key only for a record with that alg and that kty.      *)
(***************************************************************************)
C3_PublicKeyValidation ==
    \A rec \in LoadedPublicRecords :
        LET good == /\ Has(rec, "alg") /\ rec["alg"] = "PAI-GN1"
                    /\ Has(rec, "kty") /\ rec["kty"] = "DAJ"
        IN  /\ ~good => /\ run.err = Err("AssertionError", "Invalid public key")
                        /\ InvalidKeyFormat(run.err)
                        /\ run.pub = <<>>
            /\ run.pub # <<>> => good

(***************************************************************************)
(* C4.  decrypt fails with the invalid-key-format error, with no private   *)
(* key built and nothing decrypted, whenever the private key record lacks  *)
(* pub, lacks kty or has another kty than "DAJ", lacks key_ops or has no   *)
(* "decrypt" in it, lacks mu or lacks lambda; it builds a private key only *)
(* when none of these holds.                                               *)
(***************************************************************************)
C4_PrivateKeyValidation ==
    cmd = "decrypt" =>
        LET rec == inputs.private[1]
            bad == \/ ~Has(rec, "pub")
                   \/ ~Has(rec, "kty")
                   \/ rec["kty"] # "DAJ"
                   \/ ~Has(rec, "key_ops")
                   \/ "decrypt" \notin rec["key_ops"]
                   \/ ~Has(rec, "mu")
                   \/ ~Has(rec, "lambda")
        IN  /\ bad => /\ InvalidKeyFormat(run.err)
                      /\ run.private_key = <<>>
                      /\ run.encs = <<>>
                      /\ run.out = <<>>
            /\ run.private_key # <<>> => ~bad

\* what the matching private key decrypts an object of the run to
Decrypted(enc) == PrivateKey_decrypt(MatchingKey(run.pub[1]).priv, enc)

\* encrypt's record, loaded again under the same public key
Reloaded == load_encrypted_number(run.serialised[1], run.pub[1])

\* the emitted encoding does not wrap: the mantissa of the encrypted number,
\* scaled to the exponent of the record, is below n/2 in absolute value
RescaleFits ==
    2 * Abs(Decrypted(run.enc_result[1]).out[1].m)
      * Pow(BASE, run.enc_result[1].exponent - run.serialised[1]["e"])
        < run.pub[1].n

(***************************************************************************)
(* C6 as claimed.  For every number encrypted by the encrypt command, the  *)
(* record it emits, loaded again under the same public key and decrypted   *)
(* with the matching private key, yields the value the ciphertext          *)
(* decrypted to before it was serialised.                                  *)
(***************************************************************************)
C6_SerialisationKeepsValue ==
    (cmd = "encrypt" /\ run.serialised # <<>>) =>
        /\ Reloaded.err = NoErr
        /\ Decrypted(run.enc_result[1]).err = NoErr
        /\ Decrypted(Reloaded.enc[1]).err = NoErr
        /\ SameValue(Decrypted(run.enc_result[1]).out[1],
                     Decrypted(Reloaded.enc[1]).out[1])

(***************************************************************************)
(* C6 as amended.  The same, for the numbers whose mantissa, scaled to the *)
(* exponent of the emitted record, stays below n/2 in absolute value.      *)
(***************************************************************************)
C6_SerialisationKeepsValueInRange ==
    (cmd = "encrypt" /\ run.serialised # <<>>) =>
        /\ Reloaded.err = NoErr
        /\ Decrypted(run.enc_result[1]).err = NoErr
        /\ Decrypted(Reloaded.enc[1]).err = NoErr
        /\ RescaleFits =>
             SameValue(Decrypted(run.enc_result[1]).out[1],
                       Decrypted(Reloaded.enc[1]).out[1])

\* encrypt rescaled a negative number from above the floor and the record
\* decrypts to it
C6_Witness ==
    /\ cmd = "encrypt"
    /\ run.serialised # <<>>
    /\ inputs.plaintext[1].m < 0
    /\ run.enc_result[1].exponent > FloorExp
    /\ RescaleFits
    /\ Decrypted(Reloaded.enc[1]).out[1].m = BASE * inputs.plaintext[1].m

\* addenc added two records made under the public key it was given
AddedUnderSameKey ==
    /\ cmd = "addenc"
    /\ run.serialised # <<>>
    /\ inputs.ciphertexts[1].key = run.pub[1].n
    /\ inputs.ciphertexts[2].key = run.pub[1].n

\* the exponent the two operands are aligned to
CommonExponent == Min(run.encs[1].exponent, run.encs[2].exponent)

\* the sum of the two encrypted numbers, at the common exponent
PlainSum ==
    ScaledTo(inputs.ciphertexts[1].val, CommonExponent)
      + ScaledTo(inputs.ciphertexts[2].val, CommonExponent)

\* the result of addenc is the product of the aligned operands modulo n^2,
\* at the smaller of the two exponents
AddedAligned ==
    /\ run.encs[1].exponent = inputs.ciphertexts[1].val.e
    /\ run.encs[2].exponent = inputs.ciphertexts[2].val.e
    /\ run.enc_result[1].exponent = CommonExponent
    /\ run.enc_result[1].ciphertext =
          (AlignTo(run.encs[1], CommonExponent).ciphertext
             * AlignTo(run.encs[2], CommonExponent).ciphertext)
            % run.pub[1].nsquare

(***************************************************************************)
(* C7 as claimed.  For all a and b encrypted under the same public key,    *)
(* addenc's result, before it is canonicalised, has the smaller of the two *)
(* exponents, is the product of the two aligned ciphertext integers modulo *)
(* n^2, and decrypts with the matching private key to a + b.               *)
(***************************************************************************)
C7_AdditiveHomomorphism ==
    AddedUnderSameKey =>
        /\ AddedAligned
        /\ Decrypted(run.enc_result[1]).err = NoErr
        /\ ScaledTo(Decrypted(run.enc_result[1]).out[1], CommonExponent) = PlainSum

(***************************************************************************)
(* C7 as amended.  The same, the result decrypting to a + b for the a and  *)
(* b whose sum, scaled to the common exponent, stays below n/2 in absolute *)
(* value.                                                                  *)
(***************************************************************************)
C7_AdditiveHomomorphismInRange ==
    AddedUnderSameKey =>
        /\ AddedAligned
        /\ Decrypted(run.enc_result[1]).err = NoErr
        /\ 2 * Abs(PlainSum) < run.pub[1].n =>
             ScaledTo(Decrypted(run.enc_result[1]).out[1], CommonExponent) = PlainSum

\* addenc added two numbers of different exponents and opposite signs, and
\* the result decrypts to their sum
C7_Witness ==
    /\ AddedUnderSameKey
    /\ run.encs[1].exponent > run.encs[2].exponent
    /\ inputs.ciphertexts[1].val.m > 0
    /\ inputs.ciphertexts[2].val.m < 0
    /\ 2 * Abs(PlainSum) < run.pub[1].n
    /\ PlainSum # 0
    /\ Decrypted(run.enc_result[1]).out[1].m = PlainSum

====
